---- MODULE Spec2Model ----
(***************************************************************************)
(* HealthMetrics360: the three source adapters (WHO GHO, World Bank,       *)
(* OECD), the single-country aggregator of the terminal program (main.py)  *)
(* and the multi-country aggregator of the browser program (strtest.py),   *)
(* with the end of a run: the notice, the pivot, the files, the progress   *)
(* bar and st.session_state.                                               *)
(*                                                                         *)
(* Five specifications: SpecAdapter is one adapter called on its own,      *)
(* SpecMenu is the terminal KPI menu on its own, Spec is one run of either *)
(* program, SpecPivot is a run whose responses fill one pivot cell several *)
(* times, SpecSession is a browser session of several script runs.         *)
(*                                                                         *)
(* Python values are modelled as tagged records (PyNone, PyI, PyS, PyNaN); *)
(* a Python str is the sequence of its code points (Chars), so that        *)
(* int(), str.lower(), the substring test and the ordering of sort_values  *)
(* are computed and not assumed.                                           *)
(***************************************************************************)
EXTENDS Integers, Sequences, FiniteSets, TLC

VARIABLES
  variant,        \* "cli": main.py, "web": strtest.py
  pc,             \* "start", "extract", "done", "cancelled", "error", "rejected", "idle", "unit",
                  \* "selected"
  country_codes,  \* the country codes of the run (one for the terminal program)
  selected_kpis,  \* [WHO_GHO, WORLD_BANK, OECD |-> list of KPI names]
  all_data,       \* the aggregator's list of non-empty adapter tables
  combined_df,    \* the aggregator's returned table
  calls,          \* the adapter calls made so far, each with its response and result
  warnings,       \* the adapter warnings printed / shown so far
  notice,         \* the message that ended the run: "", "no data", "shown", "cancelled", ...
  total_kpis,     \* the number of KPIs selected, once it has been summed
  total_operations,   \* browser program: the number of adapter calls of the run
  current_operation,  \* browser program: the adapter calls counted so far
  progress,       \* browser program: the fractions handed to the progress bar
  pivot_df,       \* the pivot shown
  files,          \* the files written (terminal) or offered for download (browser)
  session_state,  \* browser program: st.session_state
  selected_countries, \* browser program: the country names in the multiselect
  selection       \* terminal program: the entry at the KPI prompt, split at the commas

vars == <<variant, pc, country_codes, selected_kpis, all_data, combined_df, calls,
          warnings, notice, total_kpis, total_operations, current_operation, progress,
          pivot_df, files, session_state, selected_countries, selection>>

-----------------------------------------------------------------------------
(* Bounds of the model *)

\* longest list of items / observations / rows in a response handed to one
\* adapter called on its own
MaxItems == 2

\* longest list of observations in a response inside an aggregator run
MaxRunItems == 2

\* most adapter calls in one aggregator run
MaxCalls == 3

\* longest list of observations in a response of a run that fills one pivot
\* cell several times, and most adapter calls in such a run
MaxPivotItems == 3

MaxPivotCalls == 1

\* most adapter calls in one extraction of a browser session
MaxSessionCalls == 1

\* most fields in an entry handed to the KPI menu on its own
MaxMenuEntered == 3

\* most comma-separated fields typed at the KPI prompt
MaxEntered == 3

-----------------------------------------------------------------------------
(* Program constants *)

\* the year filter of the WHO GHO and OECD adapters
MinYear == 2015

-----------------------------------------------------------------------------
(* The catalogs: KPI display name -> indicator code, in dict order *)

who_gho_kpis_cli ==
  <<
    <<"% births attended by skilled health personnel", "MDG_0000000025">>,
    <<"Coverage of essential health services (UHC index)", "XX">>,
    <<"DTP3 immunization coverage (%)", "WHS4_100">>,
    <<"Current health expenditure (% of GDP)", "GHED_CHEGDP_SHA2011">>,
    <<"Per capita health expenditure (USD)", "GHED_CHE_pc_US_SHA2011">>,
    <<"Out-of-pocket health spending (% of total)", "SDGOOP">>,
    <<"Domestic general government health expenditure (GGHE-D) as percentage of GDP", "GHED_GGHE-DCHE_SHA2011">>,
    <<"Prevalence of overweight and obesity", "EQ_OVERWEIGHTADULT">>,
    <<"Raised blood pressure (SBP>=140 OR DBP>=90) (age-standardized estimate)", "BP_04">>,
    <<"Age-standardized DALYs, diabetes mellitus, per 100,000", "SA_0000001421">> >>

who_gho_kpis_web ==
  <<
    <<"% births attended by skilled health personnel", "MDG_0000000025">>,
    <<"Coverage of essential health services (UHC index)", "XX">>,
    <<"DTP3 immunization coverage (%)", "WHS4_100">>,
    <<"Current health expenditure (% of GDP)", "GHED_CHEGDP_SHA2011">>,
    <<"Per capita health expenditure (USD)", "GHED_CHE_pc_US_SHA2011">>,
    <<"Out-of-pocket health spending (% of total)", "SDGOOP">>,
    <<"Domestic general government health expenditure (GGHE-D) as percentage of GDP", "GHED_GGHE-DCHE_SHA2011">>,
    <<"Prevalence of overweight and obesity", "EQ_OVERWEIGHTADULT">>,
    <<"Raised blood pressure (SBP>=140 OR DBP>=90) (age-standardized estimate)", "BP_04">>,
    <<"Age-standardized DALYs, diabetes mellitus, per 100,000", "SA_0000001421">>,
    <<"Estimate of current tobacco use prevalence (%)", "M_Est_tob_curr">>,
    <<"Alcohol, recorded per capita (15+) consumption (in litres of pure alcohol), by beverage type", "SA_0000001400">>,
    <<"Estimated number of MDR/RR-TB incident cases", "TB_e_inc_rr_num">>,
    <<"Estimated number of people (all ages) living with HIV", "HIV_0000000001">>,
    <<"Hepatitis B surface antigen (HBsAg) prevalence (%)", "SDGHEPHBSAGPRV">>,
    <<"Malaria incidence (per 1 000 population at risk)", "SDGMALARIA">>,
    <<"Physicians density (per 1000 population)", "HRH_33">>,
    <<"Nursing and midwifery personnel density (per 1000 population)", "HRH_24">>,
    <<"Pharmacists  (per 10,000)", "HWF_0014">>,
    <<"Hospital beds per 1,000 people", "WHS6_102">>,
    <<"Response", "IHR04">> >>

world_bank_kpis ==
  <<
    <<"% population with access to basic sanitation", "SH.STA.BASS.ZS">>,
    <<"Life expectancy at birth", "SP.DYN.LE00.IN">>,
    <<"Under-5 mortality rate (per 1,000)", "SH.DYN.MORT">>,
    <<"Maternal mortality ratio (per 100,000)", "SH.STA.MMRT">>,
    <<"Infant mortality rate (per 1,000)", "SP.DYN.IMRT.IN">>,
    <<"Neonatal mortality rate", "SH.DYN.NMRT">>,
    <<"Suicide mortality rate", "SH.STA.SUIC.P5">> >>

oecd_kpis ==
  <<
    <<"Unmet need for medical care (% reporting delay or avoidance)", "UNMET_NEED_MED_CARE">>,
    <<"% population with health insurance", "HEALTH_INSURANCE_COV">>,
    <<"Expenditure on pharmaceuticals per capita", "PHARM_EXP_PC_USD">>,
    <<"Expenditure on inpatient care (% of total)", "INPATIENT_CARE_SHARE">>,
    <<"Preventive care spending (% of total health spending)", "PREVENT_CARE_SHARE">>,
    <<"ICU beds per 100,000 (select countries)", "ICU_BEDS_PER_100K">>,
    <<"Medical technology density (MRI/CT scanners per million)", "MED_TECH_DENSITY">>,
    <<"Hospital beds by function of healthcare", "HOSP_BEDS_FUNC">> >>

\* the code points of every string the model uses (ord(c) for c in s)
Chars ==
    "% births attended by skilled health personnel" :> <<37, 32, 98, 105, 114, 116, 104, 115, 32, 97, 116, 116, 101, 110, 100, 101, 100, 32, 98, 121, 32, 115, 107, 105, 108, 108, 101, 100, 32, 104, 101, 97, 108, 116, 104, 32, 112, 101, 114, 115, 111, 110, 110, 101, 108>> @@
    "Coverage of essential health services (UHC index)" :> <<67, 111, 118, 101, 114, 97, 103, 101, 32, 111, 102, 32, 101, 115, 115, 101, 110, 116, 105, 97, 108, 32, 104, 101, 97, 108, 116, 104, 32, 115, 101, 114, 118, 105, 99, 101, 115, 32, 40, 85, 72, 67, 32, 105, 110, 100, 101, 120, 41>> @@
    "DTP3 immunization coverage (%)" :> <<68, 84, 80, 51, 32, 105, 109, 109, 117, 110, 105, 122, 97, 116, 105, 111, 110, 32, 99, 111, 118, 101, 114, 97, 103, 101, 32, 40, 37, 41>> @@
    "Current health expenditure (% of GDP)" :> <<67, 117, 114, 114, 101, 110, 116, 32, 104, 101, 97, 108, 116, 104, 32, 101, 120, 112, 101, 110, 100, 105, 116, 117, 114, 101, 32, 40, 37, 32, 111, 102, 32, 71, 68, 80, 41>> @@
    "Per capita health expenditure (USD)" :> <<80, 101, 114, 32, 99, 97, 112, 105, 116, 97, 32, 104, 101, 97, 108, 116, 104, 32, 101, 120, 112, 101, 110, 100, 105, 116, 117, 114, 101, 32, 40, 85, 83, 68, 41>> @@
    "Out-of-pocket health spending (% of total)" :> <<79, 117, 116, 45, 111, 102, 45, 112, 111, 99, 107, 101, 116, 32, 104, 101, 97, 108, 116, 104, 32, 115, 112, 101, 110, 100, 105, 110, 103, 32, 40, 37, 32, 111, 102, 32, 116, 111, 116, 97, 108, 41>> @@
    "Domestic general government health expenditure (GGHE-D) as percentage of GDP" :> <<68, 111, 109, 101, 115, 116, 105, 99, 32, 103, 101, 110, 101, 114, 97, 108, 32, 103, 111, 118, 101, 114, 110, 109, 101, 110, 116, 32, 104, 101, 97, 108, 116, 104, 32, 101, 120, 112, 101, 110, 100, 105, 116, 117, 114, 101, 32, 40, 71, 71, 72, 69, 45, 68, 41, 32, 97, 115, 32, 112, 101, 114, 99, 101, 110, 116, 97, 103, 101, 32, 111, 102, 32, 71, 68, 80>> @@
    "Prevalence of overweight and obesity" :> <<80, 114, 101, 118, 97, 108, 101, 110, 99, 101, 32, 111, 102, 32, 111, 118, 101, 114, 119, 101, 105, 103, 104, 116, 32, 97, 110, 100, 32, 111, 98, 101, 115, 105, 116, 121>> @@
    "Raised blood pressure (SBP>=140 OR DBP>=90) (age-standardized estimate)" :> <<82, 97, 105, 115, 101, 100, 32, 98, 108, 111, 111, 100, 32, 112, 114, 101, 115, 115, 117, 114, 101, 32, 40, 83, 66, 80, 62, 61, 49, 52, 48, 32, 79, 82, 32, 68, 66, 80, 62, 61, 57, 48, 41, 32, 40, 97, 103, 101, 45, 115, 116, 97, 110, 100, 97, 114, 100, 105, 122, 101, 100, 32, 101, 115, 116, 105, 109, 97, 116, 101, 41>> @@
    "Age-standardized DALYs, diabetes mellitus, per 100,000" :> <<65, 103, 101, 45, 115, 116, 97, 110, 100, 97, 114, 100, 105, 122, 101, 100, 32, 68, 65, 76, 89, 115, 44, 32, 100, 105, 97, 98, 101, 116, 101, 115, 32, 109, 101, 108, 108, 105, 116, 117, 115, 44, 32, 112, 101, 114, 32, 49, 48, 48, 44, 48, 48, 48>> @@
    "% population with access to basic sanitation" :> <<37, 32, 112, 111, 112, 117, 108, 97, 116, 105, 111, 110, 32, 119, 105, 116, 104, 32, 97, 99, 99, 101, 115, 115, 32, 116, 111, 32, 98, 97, 115, 105, 99, 32, 115, 97, 110, 105, 116, 97, 116, 105, 111, 110>> @@
    "Life expectancy at birth" :> <<76, 105, 102, 101, 32, 101, 120, 112, 101, 99, 116, 97, 110, 99, 121, 32, 97, 116, 32, 98, 105, 114, 116, 104>> @@
    "Under-5 mortality rate (per 1,000)" :> <<85, 110, 100, 101, 114, 45, 53, 32, 109, 111, 114, 116, 97, 108, 105, 116, 121, 32, 114, 97, 116, 101, 32, 40, 112, 101, 114, 32, 49, 44, 48, 48, 48, 41>> @@
    "Maternal mortality ratio (per 100,000)" :> <<77, 97, 116, 101, 114, 110, 97, 108, 32, 109, 111, 114, 116, 97, 108, 105, 116, 121, 32, 114, 97, 116, 105, 111, 32, 40, 112, 101, 114, 32, 49, 48, 48, 44, 48, 48, 48, 41>> @@
    "Infant mortality rate (per 1,000)" :> <<73, 110, 102, 97, 110, 116, 32, 109, 111, 114, 116, 97, 108, 105, 116, 121, 32, 114, 97, 116, 101, 32, 40, 112, 101, 114, 32, 49, 44, 48, 48, 48, 41>> @@
    "Neonatal mortality rate" :> <<78, 101, 111, 110, 97, 116, 97, 108, 32, 109, 111, 114, 116, 97, 108, 105, 116, 121, 32, 114, 97, 116, 101>> @@
    "Suicide mortality rate" :> <<83, 117, 105, 99, 105, 100, 101, 32, 109, 111, 114, 116, 97, 108, 105, 116, 121, 32, 114, 97, 116, 101>> @@
    "Unmet need for medical care (% reporting delay or avoidance)" :> <<85, 110, 109, 101, 116, 32, 110, 101, 101, 100, 32, 102, 111, 114, 32, 109, 101, 100, 105, 99, 97, 108, 32, 99, 97, 114, 101, 32, 40, 37, 32, 114, 101, 112, 111, 114, 116, 105, 110, 103, 32, 100, 101, 108, 97, 121, 32, 111, 114, 32, 97, 118, 111, 105, 100, 97, 110, 99, 101, 41>> @@
    "% population with health insurance" :> <<37, 32, 112, 111, 112, 117, 108, 97, 116, 105, 111, 110, 32, 119, 105, 116, 104, 32, 104, 101, 97, 108, 116, 104, 32, 105, 110, 115, 117, 114, 97, 110, 99, 101>> @@
    "Expenditure on pharmaceuticals per capita" :> <<69, 120, 112, 101, 110, 100, 105, 116, 117, 114, 101, 32, 111, 110, 32, 112, 104, 97, 114, 109, 97, 99, 101, 117, 116, 105, 99, 97, 108, 115, 32, 112, 101, 114, 32, 99, 97, 112, 105, 116, 97>> @@
    "Expenditure on inpatient care (% of total)" :> <<69, 120, 112, 101, 110, 100, 105, 116, 117, 114, 101, 32, 111, 110, 32, 105, 110, 112, 97, 116, 105, 101, 110, 116, 32, 99, 97, 114, 101, 32, 40, 37, 32, 111, 102, 32, 116, 111, 116, 97, 108, 41>> @@
    "Preventive care spending (% of total health spending)" :> <<80, 114, 101, 118, 101, 110, 116, 105, 118, 101, 32, 99, 97, 114, 101, 32, 115, 112, 101, 110, 100, 105, 110, 103, 32, 40, 37, 32, 111, 102, 32, 116, 111, 116, 97, 108, 32, 104, 101, 97, 108, 116, 104, 32, 115, 112, 101, 110, 100, 105, 110, 103, 41>> @@
    "ICU beds per 100,000 (select countries)" :> <<73, 67, 85, 32, 98, 101, 100, 115, 32, 112, 101, 114, 32, 49, 48, 48, 44, 48, 48, 48, 32, 40, 115, 101, 108, 101, 99, 116, 32, 99, 111, 117, 110, 116, 114, 105, 101, 115, 41>> @@
    "Medical technology density (MRI/CT scanners per million)" :> <<77, 101, 100, 105, 99, 97, 108, 32, 116, 101, 99, 104, 110, 111, 108, 111, 103, 121, 32, 100, 101, 110, 115, 105, 116, 121, 32, 40, 77, 82, 73, 47, 67, 84, 32, 115, 99, 97, 110, 110, 101, 114, 115, 32, 112, 101, 114, 32, 109, 105, 108, 108, 105, 111, 110, 41>> @@
    "Hospital beds by function of healthcare" :> <<72, 111, 115, 112, 105, 116, 97, 108, 32, 98, 101, 100, 115, 32, 98, 121, 32, 102, 117, 110, 99, 116, 105, 111, 110, 32, 111, 102, 32, 104, 101, 97, 108, 116, 104, 99, 97, 114, 101>> @@
    "Estimate of current tobacco use prevalence (%)" :> <<69, 115, 116, 105, 109, 97, 116, 101, 32, 111, 102, 32, 99, 117, 114, 114, 101, 110, 116, 32, 116, 111, 98, 97, 99, 99, 111, 32, 117, 115, 101, 32, 112, 114, 101, 118, 97, 108, 101, 110, 99, 101, 32, 40, 37, 41>> @@
    "Alcohol, recorded per capita (15+) consumption (in litres of pure alcohol), by beverage type" :> <<65, 108, 99, 111, 104, 111, 108, 44, 32, 114, 101, 99, 111, 114, 100, 101, 100, 32, 112, 101, 114, 32, 99, 97, 112, 105, 116, 97, 32, 40, 49, 53, 43, 41, 32, 99, 111, 110, 115, 117, 109, 112, 116, 105, 111, 110, 32, 40, 105, 110, 32, 108, 105, 116, 114, 101, 115, 32, 111, 102, 32, 112, 117, 114, 101, 32, 97, 108, 99, 111, 104, 111, 108, 41, 44, 32, 98, 121, 32, 98, 101, 118, 101, 114, 97, 103, 101, 32, 116, 121, 112, 101>> @@
    "Estimated number of MDR/RR-TB incident cases" :> <<69, 115, 116, 105, 109, 97, 116, 101, 100, 32, 110, 117, 109, 98, 101, 114, 32, 111, 102, 32, 77, 68, 82, 47, 82, 82, 45, 84, 66, 32, 105, 110, 99, 105, 100, 101, 110, 116, 32, 99, 97, 115, 101, 115>> @@
    "Estimated number of people (all ages) living with HIV" :> <<69, 115, 116, 105, 109, 97, 116, 101, 100, 32, 110, 117, 109, 98, 101, 114, 32, 111, 102, 32, 112, 101, 111, 112, 108, 101, 32, 40, 97, 108, 108, 32, 97, 103, 101, 115, 41, 32, 108, 105, 118, 105, 110, 103, 32, 119, 105, 116, 104, 32, 72, 73, 86>> @@
    "Hepatitis B surface antigen (HBsAg) prevalence (%)" :> <<72, 101, 112, 97, 116, 105, 116, 105, 115, 32, 66, 32, 115, 117, 114, 102, 97, 99, 101, 32, 97, 110, 116, 105, 103, 101, 110, 32, 40, 72, 66, 115, 65, 103, 41, 32, 112, 114, 101, 118, 97, 108, 101, 110, 99, 101, 32, 40, 37, 41>> @@
    "Malaria incidence (per 1 000 population at risk)" :> <<77, 97, 108, 97, 114, 105, 97, 32, 105, 110, 99, 105, 100, 101, 110, 99, 101, 32, 40, 112, 101, 114, 32, 49, 32, 48, 48, 48, 32, 112, 111, 112, 117, 108, 97, 116, 105, 111, 110, 32, 97, 116, 32, 114, 105, 115, 107, 41>> @@
    "Physicians density (per 1000 population)" :> <<80, 104, 121, 115, 105, 99, 105, 97, 110, 115, 32, 100, 101, 110, 115, 105, 116, 121, 32, 40, 112, 101, 114, 32, 49, 48, 48, 48, 32, 112, 111, 112, 117, 108, 97, 116, 105, 111, 110, 41>> @@
    "Nursing and midwifery personnel density (per 1000 population)" :> <<78, 117, 114, 115, 105, 110, 103, 32, 97, 110, 100, 32, 109, 105, 100, 119, 105, 102, 101, 114, 121, 32, 112, 101, 114, 115, 111, 110, 110, 101, 108, 32, 100, 101, 110, 115, 105, 116, 121, 32, 40, 112, 101, 114, 32, 49, 48, 48, 48, 32, 112, 111, 112, 117, 108, 97, 116, 105, 111, 110, 41>> @@
    "Pharmacists  (per 10,000)" :> <<80, 104, 97, 114, 109, 97, 99, 105, 115, 116, 115, 32, 32, 40, 112, 101, 114, 32, 49, 48, 44, 48, 48, 48, 41>> @@
    "Hospital beds per 1,000 people" :> <<72, 111, 115, 112, 105, 116, 97, 108, 32, 98, 101, 100, 115, 32, 112, 101, 114, 32, 49, 44, 48, 48, 48, 32, 112, 101, 111, 112, 108, 101>> @@
    "Response" :> <<82, 101, 115, 112, 111, 110, 115, 101>> @@
    "IND" :> <<73, 78, 68>> @@
    "USA" :> <<85, 83, 65>> @@
    "2010" :> <<50, 48, 49, 48>> @@
    "2015" :> <<50, 48, 49, 53>> @@
    "2024" :> <<50, 48, 50, 52>> @@
    "2020Q1" :> <<50, 48, 50, 48, 81, 49>> @@
    "2020-Q1" :> <<50, 48, 50, 48, 45, 81, 49>> @@
    "insurance" :> <<105, 110, 115, 117, 114, 97, 110, 99, 101>> @@
    "Health INSURANCE premiums" :> <<72, 101, 97, 108, 116, 104, 32, 73, 78, 83, 85, 82, 65, 78, 67, 69, 32, 112, 114, 101, 109, 105, 117, 109, 115>> @@
    "Insurance" :> <<73, 110, 115, 117, 114, 97, 110, 99, 101>> @@
    "Reinsurances paid" :> <<82, 101, 105, 110, 115, 117, 114, 97, 110, 99, 101, 115, 32, 112, 97, 105, 100>> @@
    "insuranc" :> <<105, 110, 115, 117, 114, 97, 110, 99>> @@
    "Insure ance" :> <<73, 110, 115, 117, 114, 101, 32, 97, 110, 99, 101>> @@
    "" :> <<>> @@
    "0" :> <<48>> @@
    "3" :> <<51>> @@
    "11" :> <<49, 49>> @@
    "18" :> <<49, 56>> @@
    "19" :> <<49, 57>> @@
    " 19" :> <<32, 49, 57>> @@
    "26" :> <<50, 54>> @@
    "x" :> <<120>> @@
    "1" :> <<49>> @@
    "10" :> <<49, 48>> @@
    "17" :> <<49, 55>> @@
    "25" :> <<50, 53>> @@
    "-1" :> <<45, 49>>

-----------------------------------------------------------------------------
(* Python values *)

PyNone == [t |-> "none", i |-> 0, s |-> ""]
PyNaN == [t |-> "nan", i |-> 0, s |-> ""]
PyI(n) == [t |-> "int", i |-> n, s |-> ""]
PyS(x) == [t |-> "str", i |-> 0, s |-> x]

\* bool(v): None, 0 and "" are false; NaN and everything else is true
Truthy(v) ==
  CASE v.t = "none" -> FALSE
    [] v.t = "int" -> v.i # 0
    [] v.t = "str" -> v.s # ""
    [] OTHER -> TRUE

IsSpace(c) == c \in {32, 9, 10, 13}
IsDigit(c) == c \in 48..57

RECURSIVE Strip(_)
Strip(cs) ==
  IF cs = <<>> THEN cs
  ELSE IF IsSpace(Head(cs)) THEN Strip(Tail(cs))
  ELSE IF IsSpace(cs[Len(cs)]) THEN Strip(SubSeq(cs, 1, Len(cs) - 1))
  ELSE cs

RECURSIVE DigitsValue(_)
DigitsValue(cs) ==
  IF cs = <<>> THEN 0
  ELSE 10 * DigitsValue(SubSeq(cs, 1, Len(cs) - 1)) + (cs[Len(cs)] - 48)

\* int(s) of a str: surrounding whitespace and one sign are accepted, then
\* decimal digits only; anything else is a ValueError
IntOfStr(x) ==
  LET cs == Strip(Chars[x])
      signed == cs # <<>> /\ Head(cs) \in {43, 45}
      ds == IF signed THEN Tail(cs) ELSE cs
  IN IF ds # <<>> /\ \A k \in 1..Len(ds) : IsDigit(ds[k])
     THEN [exc |-> "", i |-> IF signed /\ Head(cs) = 45 THEN 0 - DigitsValue(ds) ELSE DigitsValue(ds)]
     ELSE [exc |-> "ValueError", i |-> 0]

\* int(v): int(None) is a TypeError, int(nan) a ValueError
PyInt(v) ==
  CASE v.t = "int" -> [exc |-> "", i |-> v.i]
    [] v.t = "str" -> IntOfStr(v.s)
    [] v.t = "none" -> [exc |-> "TypeError", i |-> 0]
    [] OTHER -> [exc |-> "ValueError", i |-> 0]

\* str.lower() on the code points
Lower(cs) == [k \in 1..Len(cs) |-> IF cs[k] \in 65..90 THEN cs[k] + 32 ELSE cs[k]]

\* sub in s
Contains(sub, cs) ==
  \E k \in 0..(Len(cs) - Len(sub)) : SubSeq(cs, k + 1, k + Len(sub)) = sub

\* a < b for two str: the first differing code point decides, a proper prefix is smaller
SeqLess(a, b) ==
  LET n == IF Len(a) < Len(b) THEN Len(a) ELSE Len(b)
      differ == {k \in 1..n : a[k] # b[k]}
  IN IF differ = {} THEN Len(a) < Len(b)
     ELSE LET k == CHOOSE d \in differ : \A e \in differ : d <= e IN a[k] < b[k]

StrLess(x, y) == SeqLess(Chars[x], Chars[y])

\* a handler that catches the requests errors only
IsException_RequestsOnly(e) == e \in {"Timeout", "HTTPError"}

\* every exception the adapters can meet derives from Exception, except the
\* user's interrupt
IsException(e) == e # "KeyboardInterrupt"

-----------------------------------------------------------------------------
(* HTTP: what requests.get / raise_for_status give for a response *)

HttpGet(resp) ==
  CASE resp.kind = "timeout" -> [exc |-> "Timeout", body |-> resp.body]
    [] resp.kind = "interrupt" -> [exc |-> "KeyboardInterrupt", body |-> resp.body]
    [] resp.status >= 400 /\ resp.status < 600 -> [exc |-> "HTTPError", body |-> resp.body]
    [] OTHER -> [exc |-> "", body |-> resp.body]

Record(year, country_code, kpi_name, value, source) ==
  [Year |-> year, Country |-> country_code, KPI |-> kpi_name, Value |-> value, Source |-> source]

Warning(kpi_name, e) == [kpi |-> kpi_name, error |-> e]

\* the notice for a well-formed response with no matching rows: printed by
\* main.py, absent from strtest.py
EmptyNotice(v, kpi_name) ==
  IF v = "cli" THEN <<Warning(kpi_name, "")>> ELSE <<>>

\* a handler that would return the records accumulated before the exception
Finish_KeepsRecords(v, kpi_name, r) ==
  IF r.exc # ""
  THEN IF IsException(r.exc)
       THEN [table |-> r.records, warnings |-> <<Warning(kpi_name, r.exc)>>, exc |-> ""]
       ELSE [table |-> <<>>, warnings |-> <<>>, exc |-> r.exc]
  ELSE IF r.records = <<>>
       THEN [table |-> <<>>, warnings |-> EmptyNotice(v, kpi_name), exc |-> ""]
       ELSE [table |-> r.records, warnings |-> <<>>, exc |-> ""]

\* the end of each adapter: `if not records`, `return pd.DataFrame(records)`
\* and `except Exception`
Finish(v, kpi_name, r) ==
  IF r.exc # ""
  THEN IF IsException(r.exc)
       THEN [table |-> <<>>, warnings |-> <<Warning(kpi_name, r.exc)>>, exc |-> ""]
       ELSE [table |-> <<>>, warnings |-> <<>>, exc |-> r.exc]
  ELSE IF r.records = <<>>
       THEN [table |-> <<>>, warnings |-> EmptyNotice(v, kpi_name), exc |-> ""]
       ELSE [table |-> r.records, warnings |-> <<>>, exc |-> ""]

-----------------------------------------------------------------------------
(* WHO GHO adapter *)

\* the WHO item step without the test on SpatialDim
WhoItem_AnyCountry(item, country_code, kpi_name) ==
  LET year == item.TimeDim IN
  IF Truthy(year)
  THEN LET n == PyInt(year) IN
       IF n.exc # "" THEN [exc |-> n.exc, records |-> <<>>]
       ELSE IF n.i >= MinYear
            THEN [exc |-> "", records |->
                   <<Record(n.i, country_code, kpi_name, item.NumericValue, "WHO GHO")>>]
            ELSE [exc |-> "", records |-> <<>>]
  ELSE [exc |-> "", records |-> <<>>]

\* one item of data['value']: the records it adds, or the exception it raises
WhoItem(item, country_code, kpi_name) ==
  IF item.SpatialDim = country_code
  THEN LET year == item.TimeDim IN
       IF Truthy(year)
       THEN LET n == PyInt(year) IN
            IF n.exc # "" THEN [exc |-> n.exc, records |-> <<>>]
            ELSE IF n.i >= MinYear
                 THEN [exc |-> "", records |->
                        <<Record(n.i, country_code, kpi_name, item.NumericValue, "WHO GHO")>>]
                 ELSE [exc |-> "", records |-> <<>>]
       ELSE [exc |-> "", records |-> <<>>]
  ELSE [exc |-> "", records |-> <<>>]

RECURSIVE WhoLoop(_, _, _, _)
WhoLoop(items, country_code, kpi_name, records) ==
  IF items = <<>> THEN [exc |-> "", records |-> records]
  ELSE LET r == WhoItem(Head(items), country_code, kpi_name) IN
       IF r.exc # "" THEN [exc |-> r.exc, records |-> records]
       ELSE WhoLoop(Tail(items), country_code, kpi_name, records \o r.records)

\* the try block
WhoTry(country_code, kpi_name, resp) ==
  LET got == HttpGet(resp) IN
  IF got.exc # "" THEN [exc |-> got.exc, records |-> <<>>]
  ELSE IF got.body.shape = "malformed" THEN [exc |-> "JSONDecodeError", records |-> <<>>]
  ELSE IF got.body.shape = "value" THEN WhoLoop(got.body.items, country_code, kpi_name, <<>>)
  ELSE [exc |-> "", records |-> <<>>]

WhoRequest(indicator_code) ==
  [api |-> "WHO_GHO", dataset |-> "", country |-> "", indicator |-> indicator_code]

extract_who_gho_data(v, country_code, kpi_name, indicator_code, resp) ==
  [request |-> WhoRequest(indicator_code)] @@ Finish(v, kpi_name, WhoTry(country_code, kpi_name, resp))

-----------------------------------------------------------------------------
(* World Bank adapter *)

\* the World Bank item step labelled as the adapter it was copied from
WbItem_WhoLabel(item, country_code, kpi_name) ==
  IF item.value # PyNone
  THEN LET n == PyInt(item.date) IN
       IF n.exc # "" THEN [exc |-> n.exc, records |-> <<>>]
       ELSE [exc |-> "", records |->
              <<Record(n.i, country_code, kpi_name, item.value, "WHO GHO")>>]
  ELSE [exc |-> "", records |-> <<>>]

\* one item of data[1]: the records it adds, or the exception it raises
WbItem(item, country_code, kpi_name) ==
  IF item.value # PyNone
  THEN LET n == PyInt(item.date) IN
       IF n.exc # "" THEN [exc |-> n.exc, records |-> <<>>]
       ELSE [exc |-> "", records |->
              <<Record(n.i, country_code, kpi_name, item.value, "World Bank")>>]
  ELSE [exc |-> "", records |-> <<>>]

RECURSIVE WbLoop(_, _, _, _)
WbLoop(items, country_code, kpi_name, records) ==
  IF items = <<>> THEN [exc |-> "", records |-> records]
  ELSE LET r == WbItem(Head(items), country_code, kpi_name) IN
       IF r.exc # "" THEN [exc |-> r.exc, records |-> records]
       ELSE WbLoop(Tail(items), country_code, kpi_name, records \o r.records)

\* the try block; shapes: "message" is a one-element list, "nodata" is
\* [metadata, null], "obs" is [metadata, observations]
WbTry(country_code, kpi_name, resp) ==
  LET got == HttpGet(resp) IN
  IF got.exc # "" THEN [exc |-> got.exc, records |-> <<>>]
  ELSE IF got.body.shape = "malformed" THEN [exc |-> "JSONDecodeError", records |-> <<>>]
  ELSE IF got.body.shape = "obs" THEN WbLoop(got.body.items, country_code, kpi_name, <<>>)
  ELSE [exc |-> "", records |-> <<>>]

WbRequest(country_code, indicator_code) ==
  [api |-> "WORLD_BANK", dataset |-> "", country |-> country_code, indicator |-> indicator_code]

extract_world_bank_data(v, country_code, kpi_name, indicator_code, resp) ==
  [request |-> WbRequest(country_code, indicator_code)]
    @@ Finish(v, kpi_name, WbTry(country_code, kpi_name, resp))

-----------------------------------------------------------------------------
(* OECD adapter *)

HEALTH_PROT == "OECD.ELS.HD,DSD_HEALTH_PROT@DF_HEALTH_PROT"
HEALTH_STAT == "OECD.ELS.HD,DSD_HEALTH_STAT@DF_HEALTH_STAT"

\* the routing rule without .lower()
OecdDataset_CaseSensitive(kpi_name) ==
  IF Contains(Chars["insurance"], Chars[kpi_name]) THEN HEALTH_PROT ELSE HEALTH_STAT

\* the routing rule: "insurance" in kpi_name.lower()
OecdDataset(kpi_name) ==
  IF Contains(Chars["insurance"], Lower(Chars[kpi_name])) THEN HEALTH_PROT ELSE HEALTH_STAT

\* one row of the parsed table; pd.notna is false for NaN and for None
OecdRow(row, country_code, kpi_name) ==
  IF row.OBS_VALUE \notin {PyNaN, PyNone}
  THEN LET year == row.TIME_PERIOD IN
       IF Truthy(year)
       THEN LET n == PyInt(year) IN
            IF n.exc # "" THEN [exc |-> n.exc, records |-> <<>>]
            ELSE IF n.i >= MinYear
                 THEN [exc |-> "", records |->
                        <<Record(n.i, country_code, kpi_name, row.OBS_VALUE, "OECD")>>]
                 ELSE [exc |-> "", records |-> <<>>]
       ELSE [exc |-> "", records |-> <<>>]
  ELSE [exc |-> "", records |-> <<>>]

RECURSIVE OecdLoop(_, _, _, _)
OecdLoop(rows, country_code, kpi_name, records) ==
  IF rows = <<>> THEN [exc |-> "", records |-> records]
  ELSE LET r == OecdRow(Head(rows), country_code, kpi_name) IN
       IF r.exc # "" THEN [exc |-> r.exc, records |-> records]
       ELSE OecdLoop(Tail(rows), country_code, kpi_name, records \o r.records)

\* the try block; shape "malformed" is text read_csv rejects, "rows" a parsed table
OecdTry(country_code, kpi_name, resp) ==
  LET got == HttpGet(resp) IN
  IF got.exc # "" THEN [exc |-> got.exc, records |-> <<>>]
  ELSE IF got.body.shape = "malformed" THEN [exc |-> "ParserError", records |-> <<>>]
  ELSE OecdLoop(got.body.items, country_code, kpi_name, <<>>)

OecdRequest(country_code, kpi_name, indicator_code) ==
  [api |-> "OECD", dataset |-> OecdDataset(kpi_name), country |-> country_code,
   indicator |-> indicator_code]

extract_oecd_data(v, country_code, kpi_name, indicator_code, resp) ==
  [request |-> OecdRequest(country_code, kpi_name, indicator_code)]
    @@ Finish(v, kpi_name, OecdTry(country_code, kpi_name, resp))

-----------------------------------------------------------------------------
(* Responses the three services can give *)

SeqsUpTo(S, n) == UNION {[1..k -> S] : k \in 0..n}

Body(shape, items) == [shape |-> shape, items |-> items]
Resp(kind, status, body) == [kind |-> kind, status |-> status, body |-> body]

Variants == {"cli", "web"}
Countries == {"IND", "USA"}

\* network and HTTP failures and unparsable bodies; only the terminal program
\* can be interrupted from the keyboard while a request is in flight
Failures(v) ==
  {Resp("timeout", 0, Body("malformed", <<>>)),
   Resp("http", 404, Body("malformed", <<>>)),
   Resp("http", 500, Body("value", <<>>)),
   Resp("http", 200, Body("malformed", <<>>))}
  \cup (IF v = "cli" THEN {Resp("interrupt", 0, Body("malformed", <<>>))} ELSE {})

WhoItems ==
  [SpatialDim : Countries,
   TimeDim : {PyNone, PyI(2010), PyI(2015), PyS("2024"), PyS("2020Q1")},
   NumericValue : {PyNone, PyI(7)}]

WhoResponses ==
  {Resp("http", 200, Body("novalue", <<>>))}
  \cup {Resp("http", 200, Body("value", s)) : s \in SeqsUpTo(WhoItems, MaxItems)}

WbItems ==
  [date : {PyNone, PyS("2010"), PyS("2015"), PyS("2024"), PyS("2020Q1")},
   value : {PyNone, PyI(0), PyI(7)}]

WbResponses ==
  {Resp("http", 200, Body("message", <<>>)), Resp("http", 200, Body("nodata", <<>>))}
  \cup {Resp("http", 200, Body("obs", s)) : s \in SeqsUpTo(WbItems, MaxItems)}

OecdRows ==
  [TIME_PERIOD : {PyNaN, PyI(2010), PyI(2015), PyS("2024"), PyS("2020-Q1")},
   OBS_VALUE : {PyNaN, PyI(7)}]

OecdResponses ==
  {Resp("http", 200, Body("rows", s)) : s \in SeqsUpTo(OecdRows, MaxItems)}

\* KPI names handed to an adapter called on its own: catalog names and, for
\* the OECD routing rule, names that are not in the catalog
UnitWhoKpis == {"DTP3 immunization coverage (%)"}
UnitWbKpis == {"Life expectancy at birth"}
UnitOecdKpis ==
  {oecd_kpis[k][1] : k \in 1..Len(oecd_kpis)}
  \cup {"insurance", "Health INSURANCE premiums", "Insurance", "Reinsurances paid",
        "insuranc", "Insure ance"}

Code(catalog, kpi) ==
  LET hits == {k \in 1..Len(catalog) : catalog[k][1] = kpi} IN
  IF hits = {} THEN "XX" ELSE catalog[CHOOSE k \in hits : TRUE][2]

who_gho_kpis(v) == IF v = "cli" THEN who_gho_kpis_cli ELSE who_gho_kpis_web

Call(source, country_code, kpi_name, indicator_code, resp, r) ==
  [source |-> source, country_code |-> country_code, kpi_name |-> kpi_name,
   indicator_code |-> indicator_code, response |-> resp, request |-> r.request,
   table |-> r.table, warnings |-> r.warnings, exc |-> r.exc]

NoSelection == [WHO_GHO |-> <<>>, WORLD_BANK |-> <<>>, OECD |-> <<>>]

\* total_selected / total_kpis before the sum over the selection is taken
NotSummed == -1

\* no pivot_table has been computed
NoPivot == [made |-> FALSE, cells |-> {}]

\* st.session_state of a fresh browser session: no key is set
NoSession == [keys |-> {}, health_data |-> <<>>, selected_countries |-> <<>>]

Init ==
  /\ variant \in Variants
  /\ pc = "start"
  /\ country_codes = <<>>
  /\ selected_kpis = NoSelection
  /\ all_data = <<>>
  /\ combined_df = <<>>
  /\ calls = <<>>
  /\ warnings = <<>>
  /\ notice = ""
  /\ total_kpis = NotSummed
  /\ total_operations = 0
  /\ current_operation = 0
  /\ progress = <<>>
  /\ pivot_df = NoPivot
  /\ files = <<>>
  /\ session_state = NoSession
  /\ selected_countries = <<>>
  /\ selection = <<>>

-----------------------------------------------------------------------------
(* One adapter called on its own *)

Unit(c) ==
  /\ pc' = "unit"
  /\ calls' = <<c>>
  /\ warnings' = c.warnings
  /\ UNCHANGED <<variant, country_codes, selected_kpis, all_data, combined_df, notice,
                 total_kpis, total_operations, current_operation, progress, pivot_df,
                 files, session_state, selected_countries, selection>>

UnitWho ==
  /\ pc = "start"
  /\ \E cc \in Countries, kpi \in UnitWhoKpis,
        resp \in Failures(variant) \cup WhoResponses :
       LET code == Code(who_gho_kpis(variant), kpi) IN
       Unit(Call("WHO_GHO", cc, kpi, code, resp,
                 extract_who_gho_data(variant, cc, kpi, code, resp)))

UnitWb ==
  /\ pc = "start"
  /\ \E cc \in Countries, kpi \in UnitWbKpis,
        resp \in Failures(variant) \cup WbResponses :
       LET code == Code(world_bank_kpis, kpi) IN
       Unit(Call("WORLD_BANK", cc, kpi, code, resp,
                 extract_world_bank_data(variant, cc, kpi, code, resp)))

UnitOecd ==
  /\ pc = "start"
  /\ \E cc \in Countries, kpi \in UnitOecdKpis,
        resp \in Failures(variant) \cup OecdResponses :
       LET code == Code(oecd_kpis, kpi) IN
       Unit(Call("OECD", cc, kpi, code, resp,
                 extract_oecd_data(variant, cc, kpi, code, resp)))

NextAdapter == UnitWho \/ UnitWb \/ UnitOecd

SpecAdapter == Init /\ [][NextAdapter]_vars

-----------------------------------------------------------------------------
(* The aggregators *)

\* pd.concat(all_data, ignore_index=True)
RECURSIVE Concat(_)
Concat(tables) == IF tables = <<>> THEN <<>> ELSE Head(tables) \o Concat(Tail(tables))

\* a row sorts before another on the columns `by`, compared left to right:
\* Year as an integer, the other columns as str
RECURSIVE RowLess(_, _, _)
RowLess(a, b, by) ==
  IF by = <<>> THEN FALSE
  ELSE LET col == Head(by) IN
       IF a[col] = b[col] THEN RowLess(a, b, Tail(by))
       ELSE IF col = "Year" THEN a[col] < b[col]
       ELSE StrLess(a[col], b[col])

\* the row goes after every row that does not sort after it
Insert(df, row, by) ==
  LET later == {k \in DOMAIN df : RowLess(row, df[k], by)}
      at == IF later = {} THEN Len(df) + 1 ELSE CHOOSE k \in later : \A m \in later : k <= m
  IN SubSeq(df, 1, at - 1) \o <<row>> \o SubSeq(df, at, Len(df))

\* DataFrame.sort_values(by): rows with equal keys keep their order
RECURSIVE sort_values(_, _)
sort_values(df, by) ==
  IF df = <<>> THEN <<>>
  ELSE Insert(sort_values(SubSeq(df, 1, Len(df) - 1), by), df[Len(df)], by)

\* both aggregators sorting on KPI and Year only
SortColumns_NoCountry(v) == <<"KPI", "Year">>

\* the columns each aggregator sorts on
SortColumns(v) == IF v = "cli" THEN <<"KPI", "Year">> ELSE <<"Country", "KPI", "Year">>

\* the aggregator returning the concatenation unsorted
Combine_NoSort(v, tables) == Concat(tables)

\* the end of extract_all_data / extract_data_for_countries
Combine(v, tables) ==
  IF tables # <<>> THEN sort_values(Concat(tables), SortColumns(v)) ELSE <<>>

Names(catalog) == [k \in 1..Len(catalog) |-> catalog[k][1]]

\* the adapter calls of a run, in the order of the loops: main.py walks the
\* sources for its one country, strtest.py walks the sources for each country
SourcePlan(country_code, selected) ==
  [k \in 1..Len(selected.WHO_GHO) |->
     [country_code |-> country_code, source |-> "WHO_GHO", kpi_name |-> selected.WHO_GHO[k]]]
  \o [k \in 1..Len(selected.WORLD_BANK) |->
     [country_code |-> country_code, source |-> "WORLD_BANK", kpi_name |-> selected.WORLD_BANK[k]]]
  \o [k \in 1..Len(selected.OECD) |->
     [country_code |-> country_code, source |-> "OECD", kpi_name |-> selected.OECD[k]]]

RECURSIVE Plan(_, _)
Plan(codes, selected) ==
  IF codes = <<>> THEN <<>>
  ELSE SourcePlan(Head(codes), selected) \o Plan(Tail(codes), selected)

-----------------------------------------------------------------------------
(* The pivot and the files *)

\* the pivot cell of a row: index 'KPI', columns 'Year' (terminal program)
\* or ['Country', 'Year'] (browser program)
Cell(v, row) ==
  IF v = "cli" THEN <<row.KPI, row.Year>> ELSE <<row.KPI, row.Country, row.Year>>

\* pandas' null test on a Value
IsNull(value) == value \in {PyNone, PyNaN}

\* aggfunc='first': pandas' GroupBy.first gives the first entry of the group
\* that is not null, in table order
First(v, df, cell) ==
  LET group == {j \in DOMAIN df : Cell(v, df[j]) = cell /\ ~IsNull(df[j].Value)}
  IN df[CHOOSE j \in group : \A k \in group : j <= k].Value

\* df.pivot_table(index='KPI', columns=..., values='Value', aggfunc='first');
\* a cell whose group holds only null Values stays blank
pivot_table(v, df) ==
  LET filled == {Cell(v, df[j]) : j \in {k \in DOMAIN df : ~IsNull(df[k].Value)}}
  IN [made |-> TRUE,
      cells |-> {[cell |-> cell, Value |-> First(v, df, cell)] : cell \in filled}]

\* the name of a file: a stem, then strftime('%Y%m%d_%H%M%S') of now, then .csv
FileName(stem) == stem \o <<"%Y%m%d_%H%M%S", ".csv">>

\* display_comprehensive_table of main.py: df.to_csv(filename, index=False)
SavedFiles(country_code) ==
  <<[file_name |-> FileName(<<"health_kpis", country_code>>), data |-> "df"]>>

\* the two st.download_button of strtest.py
DownloadButtons ==
  <<[file_name |-> FileName(<<"health_kpi_overview">>), data |-> "pivot_df"],
    [file_name |-> FileName(<<"health_kpi_raw">>), data |-> "df"]>>

\* what a script run of the browser program has in st.session_state after
\* an extraction is stored
Store(ss, df, names) ==
  [keys |-> ss.keys \cup {"health_data", "selected_countries"},
   health_data |-> df, selected_countries |-> names]

\* sum(len(kpis) for kpis in selected_kpis.values())
Total(selected) == Len(selected.WHO_GHO) + Len(selected.WORLD_BANK) + Len(selected.OECD)

\* a total that would leave out the number of countries
TotalOperations_OneCountry(codes, selected) == Total(selected)

\* total_operations of extract_data_for_countries
TotalOperations(codes, selected) == Len(codes) * Total(selected)

-----------------------------------------------------------------------------
(* Terminal program: the KPI menu *)

\* all_kpis: menu number -> (db, kpi), numbered from 1 in catalog order
Menu ==
  [k \in 1..Len(who_gho_kpis_cli) |-> [db |-> "WHO_GHO", kpi |-> who_gho_kpis_cli[k][1]]]
  \o [k \in 1..Len(world_bank_kpis) |-> [db |-> "WORLD_BANK", kpi |-> world_bank_kpis[k][1]]]
  \o [k \in 1..Len(oecd_kpis) |-> [db |-> "OECD", kpi |-> oecd_kpis[k][1]]]

\* a loop that would add a KPI only the first time its number comes up
Pick_Once(numbers, db) ==
  LET first(k) == /\ numbers[k] \in DOMAIN Menu
                  /\ Menu[numbers[k]].db = db
                  /\ \A j \in 1..(k - 1) : numbers[j] # numbers[k]
      kept == SelectSeq([k \in DOMAIN numbers |-> k], first)
  IN [k \in DOMAIN kept |-> Menu[numbers[kept[k]]].kpi]

\* selected_kpis[db] after the loop over selected_numbers
RECURSIVE Pick(_, _)
Pick(numbers, db) ==
  IF numbers = <<>> THEN <<>>
  ELSE (IF Head(numbers) \in DOMAIN Menu /\ Menu[Head(numbers)].db = db
        THEN <<Menu[Head(numbers)].kpi>> ELSE <<>>) \o Pick(Tail(numbers), db)

\* fields: selection.split(','); every field goes through int(x.strip())
display_kpis_and_get_selection(fields) ==
  LET parsed == [k \in DOMAIN fields |-> IntOfStr(fields[k])]
      bad == {k \in DOMAIN fields : parsed[k].exc # ""}
      numbers == [k \in DOMAIN fields |-> parsed[k].i]
  IN IF bad # {} THEN [exc |-> "ValueError", selected |-> NoSelection]
     ELSE [exc |-> "", selected |->
            [WHO_GHO |-> Pick(numbers, "WHO_GHO"), WORLD_BANK |-> Pick(numbers, "WORLD_BANK"),
             OECD |-> Pick(numbers, "OECD")]]

\* what the user types at the KPI prompt, split at the commas; the empty
\* entry is the one empty field
MenuFields == {"3", "11", "0", "x", ""}

-----------------------------------------------------------------------------
(* Browser program: the sidebar *)

\* extractor.countries restricted to the countries of the model
countries == ("India" :> "IND") @@ ("United States" :> "USA")

\* the multiselect: a list of distinct country names, in the order picked
CountryLists == {s \in SeqsUpTo(DOMAIN countries, Cardinality(DOMAIN countries)) :
                   \A a, b \in DOMAIN s : a # b => s[a] # s[b]}

\* the checkboxes the model ticks
ModelKpis ==
  {"DTP3 immunization coverage (%)", "% population with access to basic sanitation",
   "Unmet need for medical care (% reporting delay or avoidance)"}

\* the ticked checkboxes of one expander, in catalog order
Ticked(catalog, ticked) == SelectSeq(Names(catalog), LAMBDA kpi : kpi \in ticked)

-----------------------------------------------------------------------------
(* Responses inside a run *)

RunFailures(v) ==
  {Resp("timeout", 0, Body("malformed", <<>>))}
  \cup (IF v = "cli" THEN {Resp("interrupt", 0, Body("malformed", <<>>))} ELSE {})

RunWhoItems(country_code) ==
  [SpatialDim : {country_code}, TimeDim : {PyI(2015), PyI(2024)}, NumericValue : {PyI(7)}]

RunWbItems == [date : {PyS("2015"), PyS("2024")}, value : {PyI(7)}]

RunOecdRows == [TIME_PERIOD : {PyI(2015), PyI(2024)}, OBS_VALUE : {PyI(7)}]

\* inside a run the services answer with observations whose years alternate
RunLists(items) ==
  {s \in SeqsUpTo(items, MaxRunItems) : \A k \in 1..(Len(s) - 1) : s[k] # s[k + 1]}

RunResponses(v, source, country_code) ==
  RunFailures(v) \cup
  CASE source = "WHO_GHO" ->
         {Resp("http", 200, Body("novalue", <<>>))}
         \cup {Resp("http", 200, Body("value", s)) : s \in RunLists(RunWhoItems(country_code))}
    [] source = "WORLD_BANK" ->
         {Resp("http", 200, Body("obs", s)) : s \in RunLists(RunWbItems)}
    [] OTHER ->
         {Resp("http", 200, Body("rows", s)) : s \in RunLists(RunOecdRows)}

\* responses whose observations all fall into one year, with different
\* values, and for WHO GHO with and without a NumericValue
PivotWhoItems(country_code) ==
  [SpatialDim : {country_code}, TimeDim : {PyI(2015)},
   NumericValue : {PyNone, PyI(7), PyI(9)}]

PivotWbItems == [date : {PyS("2015")}, value : {PyI(7), PyI(9)}]

PivotOecdRows == [TIME_PERIOD : {PyI(2015)}, OBS_VALUE : {PyI(7), PyI(9)}]

PivotResponses(source, country_code) ==
  CASE source = "WHO_GHO" ->
         {Resp("http", 200, Body("value", s)) :
            s \in SeqsUpTo(PivotWhoItems(country_code), MaxPivotItems)}
    [] source = "WORLD_BANK" ->
         {Resp("http", 200, Body("obs", s)) : s \in SeqsUpTo(PivotWbItems, MaxPivotItems)}
    [] OTHER ->
         {Resp("http", 200, Body("rows", s)) : s \in SeqsUpTo(PivotOecdRows, MaxPivotItems)}

-----------------------------------------------------------------------------
(* A run *)

\* extract_all_data / extract_data_for_countries up to the first adapter
\* call: the selection is taken and the aggregator's locals are fresh
Extract(codes, selected) ==
  /\ country_codes' = codes
  /\ selected_kpis' = selected
  /\ total_kpis' = Total(selected)
  /\ total_operations' = IF variant = "web" THEN TotalOperations(codes, selected) ELSE 0
  /\ current_operation' = 0
  /\ progress' = <<>>
  /\ all_data' = <<>>
  /\ combined_df' = <<>>
  /\ calls' = <<>>
  /\ warnings' = <<>>
  /\ pivot_df' = NoPivot
  /\ files' = <<>>

\* HealthKPIExtractor.run up to the first adapter call, for selections of at
\* most maxCalls KPIs; with no KPI selected the aggregator returns the empty
\* table at once and display_comprehensive_table prints its notice;
\* Ctrl-C at a prompt raises KeyboardInterrupt
RunCliUpTo(maxCalls) ==
  /\ variant = "cli"
  /\ pc = "start"
  /\ \/ /\ pc' = "cancelled"
        /\ notice' = "cancelled"
        /\ UNCHANGED <<country_codes, selected_kpis, total_kpis, total_operations,
                       current_operation, progress, all_data, combined_df, calls,
                       warnings, pivot_df, files, selection>>
     \/ \E cc \in Countries, fields \in SeqsUpTo(MenuFields, MaxEntered) \ {<<>>} :
          LET sel == display_kpis_and_get_selection(fields) IN
          /\ selection' = fields
          /\ IF sel.exc # ""
             THEN /\ pc' = "error"
                  /\ notice' = "error"
                  /\ UNCHANGED <<country_codes, selected_kpis, total_kpis,
                                 total_operations, current_operation, progress, all_data,
                                 combined_df, calls, warnings, pivot_df, files>>
             ELSE /\ Len(Plan(<<cc>>, sel.selected)) <= maxCalls
                  /\ Extract(<<cc>>, sel.selected)
                  /\ IF Plan(<<cc>>, sel.selected) = <<>>
                     THEN pc' = "done" /\ notice' = "no data"
                     ELSE pc' = "extract" /\ notice' = ""
  /\ UNCHANGED <<variant, selected_countries, session_state>>

RunCli == RunCliUpTo(MaxCalls)

\* main() of strtest.py with the Extract Data button pressed, up to the
\* first adapter call, for selections of at most maxCalls calls; a script
\* run starts with fresh locals and an empty page
ClickWebAt(positions, maxCalls) ==
  /\ variant = "web"
  /\ pc \in positions
  /\ \E names \in CountryLists, ticked \in SUBSET ModelKpis :
       LET selected == [WHO_GHO |-> Ticked(who_gho_kpis_web, ticked),
                        WORLD_BANK |-> Ticked(world_bank_kpis, ticked),
                        OECD |-> Ticked(oecd_kpis, ticked)]
           codes == [k \in DOMAIN names |-> countries[names[k]]]
       IN /\ selected_countries' = names
          /\ IF names = <<>> \/ Total(selected) = 0
             THEN /\ pc' = "rejected"
                  /\ notice' = IF names = <<>> THEN "select country" ELSE "select kpi"
                  /\ total_kpis' = IF names = <<>> THEN NotSummed ELSE 0
                  /\ selected_kpis' = selected
                  /\ country_codes' = <<>>
                  /\ total_operations' = 0
                  /\ current_operation' = 0
                  /\ progress' = <<>>
                  /\ all_data' = <<>>
                  /\ combined_df' = <<>>
                  /\ calls' = <<>>
                  /\ warnings' = <<>>
                  /\ pivot_df' = NoPivot
                  /\ files' = <<>>
             ELSE /\ Len(Plan(codes, selected)) <= maxCalls
                  /\ Extract(codes, selected)
                  /\ pc' = "extract"
                  /\ notice' = ""
  /\ UNCHANGED <<variant, session_state, selection>>

ClickWeb == ClickWebAt({"start"}, MaxCalls)

\* a loop that would call an adapter again after it came back with nothing
NextCall_RetryFailed ==
  IF calls # <<>> /\ calls[Len(calls)].table = <<>>
  THEN Plan(country_codes, selected_kpis)[Len(calls)]
  ELSE Plan(country_codes, selected_kpis)[Len(calls) + 1]

\* the next adapter call of the loops
NextCall == Plan(country_codes, selected_kpis)[Len(calls) + 1]

\* a display that would not test df.empty
DisplayCli_NoEmptyTest(df) ==
  /\ notice' = "shown"
  /\ pivot_df' = pivot_table("cli", df)
  /\ files' = SavedFiles(country_codes[1])
  /\ UNCHANGED session_state

\* the end of a run of the terminal program: display_comprehensive_table
DisplayCli(df) ==
  /\ notice' = IF df = <<>> THEN "no data" ELSE "shown"
  /\ pivot_df' = IF df = <<>> THEN NoPivot ELSE pivot_table("cli", df)
  /\ files' = IF df = <<>> THEN <<>> ELSE SavedFiles(country_codes[1])
  /\ UNCHANGED session_state

\* a script run that would store the extraction before testing df.empty
DisplayWeb_StoresFirst(df) ==
  /\ notice' = IF df = <<>> THEN "no data" ELSE "shown"
  /\ session_state' = Store(session_state, df, selected_countries)
  /\ pivot_df' = IF df = <<>> THEN NoPivot ELSE pivot_table("web", df)
  /\ files' = IF df = <<>> THEN <<>> ELSE DownloadButtons

\* the end of a script run of the browser program after an extraction: an
\* empty table returns before anything is stored or displayed
DisplayWeb(df) ==
  /\ notice' = IF df = <<>> THEN "no data" ELSE "shown"
  /\ session_state' = IF df = <<>> THEN session_state
                      ELSE Store(session_state, df, selected_countries)
  /\ pivot_df' = IF df = <<>> THEN NoPivot ELSE pivot_table("web", df)
  /\ files' = IF df = <<>> THEN <<>> ELSE DownloadButtons

\* one adapter call returns to the aggregator; after the last one the tables
\* are concatenated and sorted, and the result is displayed
Collect(c) ==
  /\ calls' = Append(calls, c)
  /\ warnings' = warnings \o c.warnings
  /\ IF c.exc # ""
     THEN /\ pc' = "cancelled"
          /\ notice' = "cancelled"
          /\ UNCHANGED <<all_data, combined_df, current_operation, progress, pivot_df,
                         files, session_state>>
     ELSE LET data == IF c.table # <<>> THEN Append(all_data, c.table) ELSE all_data IN
          /\ all_data' = data
          /\ IF variant = "web"
             THEN /\ current_operation' = current_operation + 1
                  /\ progress' = Append(progress, <<current_operation + 1, total_operations>>)
             ELSE UNCHANGED <<current_operation, progress>>
          /\ IF Len(calls) + 1 = Len(Plan(country_codes, selected_kpis))
             THEN /\ combined_df' = Combine(variant, data)
                  /\ pc' = "done"
                  /\ IF variant = "cli"
                     THEN DisplayCli(Combine(variant, data))
                     ELSE DisplayWeb(Combine(variant, data))
             ELSE /\ pc' = "extract"
                  /\ UNCHANGED <<combined_df, notice, pivot_df, files, session_state>>
  /\ UNCHANGED <<variant, country_codes, selected_kpis, selected_countries, selection,
                 total_kpis, total_operations>>

\* the responses a call can get: those of a whole run, or those chosen to
\* fill one pivot cell several times
Responses(feed, v, source, country_code) ==
  IF feed = "run" THEN RunResponses(v, source, country_code)
  ELSE PivotResponses(source, country_code)

StepWhoFrom(feed) ==
  /\ pc = "extract"
  /\ NextCall.source = "WHO_GHO"
  /\ \E resp \in Responses(feed, variant, "WHO_GHO", NextCall.country_code) :
       LET code == Code(who_gho_kpis(variant), NextCall.kpi_name) IN
       Collect(Call("WHO_GHO", NextCall.country_code, NextCall.kpi_name, code, resp,
                    extract_who_gho_data(variant, NextCall.country_code, NextCall.kpi_name,
                                         code, resp)))

StepWbFrom(feed) ==
  /\ pc = "extract"
  /\ NextCall.source = "WORLD_BANK"
  /\ \E resp \in Responses(feed, variant, "WORLD_BANK", NextCall.country_code) :
       LET code == Code(world_bank_kpis, NextCall.kpi_name) IN
       Collect(Call("WORLD_BANK", NextCall.country_code, NextCall.kpi_name, code, resp,
                    extract_world_bank_data(variant, NextCall.country_code,
                                            NextCall.kpi_name, code, resp)))

StepOecdFrom(feed) ==
  /\ pc = "extract"
  /\ NextCall.source = "OECD"
  /\ \E resp \in Responses(feed, variant, "OECD", NextCall.country_code) :
       LET code == Code(oecd_kpis, NextCall.kpi_name) IN
       Collect(Call("OECD", NextCall.country_code, NextCall.kpi_name, code, resp,
                    extract_oecd_data(variant, NextCall.country_code, NextCall.kpi_name,
                                      code, resp)))

StepWho == StepWhoFrom("run")

StepWb == StepWbFrom("run")

StepOecd == StepOecdFrom("run")

Next == RunCli \/ ClickWeb \/ StepWho \/ StepWb \/ StepOecd

Spec == Init /\ [][Next]_vars

\* the KPI menu on its own: entries with the first and the last number of
\* each catalog, numbers around the menu range, a padded and a signed number
MenuEntries == {"1", "10", "11", "17", "18", "25", "0", "26", " 19", "-1", "x"}

\* display_kpis_and_get_selection returns the selection or raises
MenuPrompt ==
  /\ variant = "cli"
  /\ pc = "start"
  /\ \E fields \in SeqsUpTo(MenuEntries, MaxMenuEntered) \ {<<>>} :
       LET sel == display_kpis_and_get_selection(fields) IN
       /\ selection' = fields
       /\ selected_kpis' = sel.selected
       /\ pc' = IF sel.exc # "" THEN "error" ELSE "selected"
       /\ notice' = IF sel.exc # "" THEN "error" ELSE ""
  /\ UNCHANGED <<variant, country_codes, all_data, combined_df, calls, warnings,
                 total_kpis, total_operations, current_operation, progress, pivot_df,
                 files, session_state, selected_countries>>

NextMenu == MenuPrompt

SpecMenu == Init /\ [][NextMenu]_vars

\* a browser session: script runs one after the other, started by a click
\* on Extract Data or by a change of a widget, over one st.session_state
InitSession == Init /\ variant = "web"

SessionClick == ClickWebAt({"start", "done", "rejected", "idle"}, MaxSessionCalls)

\* a script run without the button pressed, the widgets as they are: the
\* page shows what is stored
Rerun ==
  /\ variant = "web"
  /\ pc \in {"start", "done", "rejected", "idle"}
  /\ pc' = "idle"
  /\ notice' = IF "health_data" \in session_state.keys THEN "shown" ELSE ""
  /\ pivot_df' = IF "health_data" \in session_state.keys
                 THEN pivot_table("web", session_state.health_data) ELSE NoPivot
  /\ files' = IF "health_data" \in session_state.keys THEN DownloadButtons ELSE <<>>
  /\ country_codes' = <<>>
  /\ total_kpis' = NotSummed
  /\ total_operations' = 0
  /\ current_operation' = 0
  /\ progress' = <<>>
  /\ all_data' = <<>>
  /\ combined_df' = <<>>
  /\ calls' = <<>>
  /\ warnings' = <<>>
  /\ UNCHANGED <<variant, session_state, selected_countries, selected_kpis, selection>>

NextSession == SessionClick \/ Rerun \/ StepWho \/ StepWb \/ StepOecd

SpecSession == InitSession /\ [][NextSession]_vars

\* runs of few calls whose responses fill one pivot cell several times
PivotRunCli == RunCliUpTo(MaxPivotCalls)

PivotClickWeb == ClickWebAt({"start"}, MaxPivotCalls)

PivotStepWho == StepWhoFrom("pivot")

PivotStepWb == StepWbFrom("pivot")

PivotStepOecd == StepOecdFrom("pivot")

NextPivot == PivotRunCli \/ PivotClickWeb \/ PivotStepWho \/ PivotStepWb \/ PivotStepOecd

SpecPivot == Init /\ [][NextPivot]_vars

-----------------------------------------------------------------------------
(* Properties of single adapter calls; they read the log of calls *)

\* the response never arrived: timeout, or a 4xx / 5xx status
NetworkFailure(resp) ==
  resp.kind = "timeout" \/ (resp.kind = "http" /\ resp.status \in 400..599)

\* the response arrived and its body cannot be parsed
ParsingFailure(resp) ==
  resp.kind = "http" /\ resp.status \in 200..299 /\ resp.body.shape = "malformed"

\* the response arrived, parses and holds no row at all
ZeroRows(resp) ==
  resp.kind = "http" /\ resp.status \in 200..299 /\ resp.body.shape # "malformed"
    /\ resp.body.items = <<>>

\* the response arrived and parses, and none of its rows is one the adapter
\* looks for: no object of the requested country (WHO GHO), no observation
\* with a value (World Bank), no row with an observation value (OECD)
NoMatchingRows(c) ==
  /\ c.response.kind = "http" /\ c.response.status \in 200..299
  /\ c.response.body.shape # "malformed"
  /\ \A n \in DOMAIN c.response.body.items :
       LET item == c.response.body.items[n] IN
       CASE c.source = "WHO_GHO" -> item.SpatialDim # c.country_code
         [] c.source = "WORLD_BANK" -> item.value = PyNone
         [] OTHER -> item.OBS_VALUE = PyNaN

\* C1: every record of every adapter's table has Year >= 2015
C1_YearAtLeast2015 ==
  \A k \in DOMAIN calls : \A j \in DOMAIN calls[k].table :
    calls[k].table[j].Year >= MinYear

\* C2: no record of any returned table has an absent / null value
C2_NoNullValue ==
  \A k \in DOMAIN calls : \A j \in DOMAIN calls[k].table :
    calls[k].table[j].Value \notin {PyNone, PyNaN}

\* C3: on a network/HTTP failure, a parsing failure or a response with zero
\* rows the adapter returns the empty table, and no response makes it raise
C3_FailureGivesEmptyTable ==
  \A k \in DOMAIN calls :
    LET c == calls[k] IN
    /\ (c.response.kind # "interrupt" => c.exc = "")
    /\ (NetworkFailure(c.response) \/ ParsingFailure(c.response) \/ ZeroRows(c.response)
          \/ NoMatchingRows(c)
          => c.table = <<>>)

\* C3's case: the OECD adapter got a body it cannot parse and returned the empty table
C3_Witness ==
  /\ calls # <<>>
  /\ calls[1].source = "OECD"
  /\ ParsingFailure(calls[1].response)
  /\ calls[1].table = <<>>
  /\ calls[1].exc = ""

\* C4: a call that ends with an empty table has emitted a warning naming its KPI
C4_EmptyResultWarns ==
  \A k \in DOMAIN calls :
    LET c == calls[k] IN
    (c.exc = "" /\ c.table = <<>>)
      => \E j \in DOMAIN c.warnings : c.warnings[j].kpi = c.kpi_name

\* TimeDim -> Year of a WHO object, when it is an integer
WhoYear(item) == PyInt(item.TimeDim).i

\* C5: each record of a WHO GHO table carries the requested country code and
\* comes from an object of the payload whose SpatialDim is that code
C5_WhoOnlyRequestedCountry ==
  \A k \in DOMAIN calls :
    LET c == calls[k] IN
    c.source = "WHO_GHO" =>
      /\ \A j \in DOMAIN c.table :
           /\ c.table[j].Country = c.country_code
           /\ \E n \in DOMAIN c.response.body.items :
                LET item == c.response.body.items[n] IN
                /\ item.SpatialDim = c.country_code
                /\ PyInt(item.TimeDim).exc = ""
                /\ WhoYear(item) = c.table[j].Year
                /\ item.NumericValue = c.table[j].Value
      /\ Len(c.table) <= Cardinality({n \in DOMAIN c.response.body.items :
                                        c.response.body.items[n].SpatialDim = c.country_code})

\* C5's case: a payload of two countries, of which only the requested one is returned
C5_Witness ==
  /\ calls # <<>>
  /\ calls[1].source = "WHO_GHO"
  /\ Len(calls[1].response.body.items) = 2
  /\ calls[1].response.body.items[1].SpatialDim # calls[1].country_code
  /\ calls[1].response.body.items[1].TimeDim = PyI(2015)
  /\ calls[1].response.body.items[2].SpatialDim = calls[1].country_code
  /\ Len(calls[1].table) = 1

\* the WHO filter as the specification words it, object by object
WhoPasses(item, country_code) ==
  /\ item.SpatialDim = country_code
  /\ PyInt(item.TimeDim).exc = ""
  /\ WhoYear(item) >= MinYear

\* C6: the WHO GHO table holds one record for each object that passes the
\* filter, in order, whatever the other objects are
C6_WhoObjectByObject ==
  \A k \in DOMAIN calls :
    LET c == calls[k] IN
    (c.source = "WHO_GHO" /\ c.response.kind = "http" /\ c.response.status = 200
       /\ c.response.body.shape = "value") =>
      LET kept == SelectSeq(c.response.body.items,
                            LAMBDA item : WhoPasses(item, c.country_code))
      IN /\ Len(c.table) = Len(kept)
         /\ \A j \in DOMAIN c.table :
              c.table[j] = Record(WhoYear(kept[j]), c.country_code, c.kpi_name,
                                  kept[j].NumericValue, "WHO GHO")

\* C7: the World Bank table holds exactly one record per observation whose
\* value is not null, and none for the others
C7_WbOneRecordPerValue ==
  \A k \in DOMAIN calls :
    LET c == calls[k] IN
    (c.source = "WORLD_BANK" /\ c.response.kind = "http" /\ c.response.status = 200
       /\ c.response.body.shape = "obs") =>
      LET kept == SelectSeq(c.response.body.items, LAMBDA item : item.value # PyNone)
      IN /\ Len(c.table) = Len(kept)
         /\ \A j \in DOMAIN c.table :
              /\ c.table[j].Value = kept[j].value
              /\ PyInt(kept[j].date).exc = "" => c.table[j].Year = PyInt(kept[j].date).i

\* two code points that are the same letter of "insurance" in either case
SameLetter(c, lower) == c = lower \/ (lower \in 97..122 /\ c = lower - 32)

\* the name holds the letters of "insurance", in either case, side by side
HasInsurance(kpi_name) ==
  LET cs == Chars[kpi_name]
      word == Chars["insurance"]
  IN \E start \in 1..Len(cs) :
       /\ start + Len(word) - 1 <= Len(cs)
       /\ \A j \in 1..Len(word) : SameLetter(cs[start + j - 1], word[j])

\* C8: an OECD request goes to the health-protection dataset exactly when the
\* KPI name contains "insurance" in any case, and to the health-statistics
\* dataset otherwise
C8_OecdRouting ==
  \A k \in DOMAIN calls :
    LET c == calls[k] IN
    c.source = "OECD" =>
      /\ c.request.dataset \in {HEALTH_PROT, HEALTH_STAT}
      /\ HEALTH_PROT # HEALTH_STAT
      /\ (c.request.dataset = HEALTH_PROT <=> HasInsurance(c.kpi_name))

\* C8's case: a name with "INSURANCE" in capitals went to the health-protection dataset
C8_Witness ==
  /\ calls # <<>>
  /\ calls[1].source = "OECD"
  /\ calls[1].kpi_name = "Health INSURANCE premiums"
  /\ calls[1].request.dataset = HEALTH_PROT

-----------------------------------------------------------------------------
(* Properties of the aggregators *)

RECURSIVE TotalRows(_)
TotalRows(log) == IF log = <<>> THEN 0 ELSE Len(Head(log).table) + TotalRows(Tail(log))

\* how many rows of the table equal the record
Count(df, rec) == Cardinality({j \in DOMAIN df : df[j] = rec})

RECURSIVE CountReturned(_, _)
CountReturned(log, rec) ==
  IF log = <<>> THEN 0 ELSE Count(Head(log).table, rec) + CountReturned(Tail(log), rec)

\* the merged table holds each returned record as often as the adapters returned it
SameRecords ==
  /\ Len(combined_df) = TotalRows(calls)
  /\ \A k \in DOMAIN calls : \A j \in DOMAIN calls[k].table :
       Count(combined_df, calls[k].table[j]) = CountReturned(calls, calls[k].table[j])

StrLeq(x, y) == x = y \/ StrLess(x, y)

\* C9: the single-country aggregator returns as many rows as the adapter
\* calls returned together, none dropped or duplicated, ordered by KPI and,
\* within equal KPI, by Year
C9_SingleCountryMerge ==
  (variant = "cli" /\ pc = "done") =>
    /\ SameRecords
    /\ \A j \in 1..(Len(combined_df) - 1) :
         /\ StrLeq(combined_df[j].KPI, combined_df[j + 1].KPI)
         /\ combined_df[j].KPI = combined_df[j + 1].KPI
              => combined_df[j].Year <= combined_df[j + 1].Year

\* C9's case: three adapter calls returned 2, 0 and 2 rows, and sorting moved rows
C9_Witness ==
  /\ variant = "cli"
  /\ pc = "done"
  /\ Len(calls) = 3
  /\ Len(calls[1].table) = 2
  /\ calls[2].table = <<>>
  /\ Len(calls[3].table) = 2
  /\ Len(combined_df) = 4
  /\ combined_df # Concat(all_data)

\* C10: the multi-country aggregator returns every record of every adapter
\* call, ordered by Country, then KPI, then Year
C10_MultiCountryMerge ==
  (variant = "web" /\ pc = "done") =>
    /\ SameRecords
    /\ \A j \in 1..(Len(combined_df) - 1) :
         LET a == combined_df[j]
             b == combined_df[j + 1]
         IN /\ StrLeq(a.Country, b.Country)
            /\ a.Country = b.Country => StrLeq(a.KPI, b.KPI)
            /\ (a.Country = b.Country /\ a.KPI = b.KPI) => a.Year <= b.Year

\* C10's case: two countries picked in the order USA, IND, rows for both, and
\* the rows of IND come first
C10_Witness ==
  /\ variant = "web"
  /\ pc = "done"
  /\ country_codes = <<"USA", "IND">>
  /\ Len(combined_df) >= 3
  /\ combined_df[1].Country = "IND"
  /\ combined_df[Len(combined_df)].Country = "USA"
  /\ calls[1].table # <<>>

-----------------------------------------------------------------------------
(* Properties of a run *)

\* the (country, KPI) pairs selected in the run
SelectedPairs ==
  {<<Plan(country_codes, selected_kpis)[k].country_code,
     Plan(country_codes, selected_kpis)[k].kpi_name>> :
     k \in DOMAIN Plan(country_codes, selected_kpis)}

CallsFor(pair) ==
  {k \in DOMAIN calls : calls[k].country_code = pair[1] /\ calls[k].kpi_name = pair[2]}

\* the calls made so far are the first entries of the loops' plan, each sent
\* to the API of its source; only the last one can have been interrupted
FollowsPlan ==
  /\ Len(calls) <= Len(Plan(country_codes, selected_kpis))
  /\ \A k \in DOMAIN calls :
       /\ calls[k].source = Plan(country_codes, selected_kpis)[k].source
       /\ calls[k].country_code = Plan(country_codes, selected_kpis)[k].country_code
       /\ calls[k].kpi_name = Plan(country_codes, selected_kpis)[k].kpi_name
       /\ calls[k].request.api = calls[k].source
       /\ k < Len(calls) => calls[k].exc = ""

\* C11 as stated: in a finished run every selected (country, KPI) pair has
\* had exactly one adapter call
C11_OneCallPerPair ==
  pc = "done" => \A pair \in SelectedPairs : Cardinality(CallsFor(pair)) = 1

\* C11 amended: a run makes one adapter call, with one request to the API of
\* the KPI's source, for each entry of the selection and each country, in
\* the order of the loops; a call that fails or comes back empty is not
\* repeated, and while calls remain the next one is pending, so that a run
\* ends only with all of them made (or interrupted by the user); in the
\* browser program that is exactly one call for each selected (country,
\* KPI) pair, while the terminal program calls a KPI once for each time its
\* number was entered
C11_OneCallPerEntry ==
  /\ FollowsPlan
  /\ pc = "extract" =>
       /\ Len(calls) < Len(Plan(country_codes, selected_kpis))
       /\ NextCall.source \in {"WHO_GHO", "WORLD_BANK", "OECD"}
  /\ pc = "done" => Len(calls) = Len(Plan(country_codes, selected_kpis))
  /\ pc = "done" /\ variant = "web" =>
       \A pair \in SelectedPairs : Cardinality(CallsFor(pair)) = 1
  /\ pc = "cancelled" /\ calls # <<>> => calls[Len(calls)].exc = "KeyboardInterrupt"

\* a finished run whose first call failed and whose second call repeated
\* the same pair because its number was entered twice
C11_Witness ==
  /\ pc = "done"
  /\ Len(calls) >= 2
  /\ calls[1].table = <<>>
  /\ calls[1].warnings # <<>>
  /\ calls[2].kpi_name = calls[1].kpi_name
  /\ calls[2].country_code = calls[1].country_code

\* C12: a run in which zero KPIs are selected ends with an empty table and a
\* notice to select at least one KPI, and no adapter call is made in it, in
\* the browser program and in the terminal program alike
C12_ZeroKpisNotice ==
  (pc \in {"done", "rejected"} /\ total_kpis = 0) =>
    /\ notice = "select kpi"
    /\ calls = <<>>
    /\ combined_df = <<>>

-----------------------------------------------------------------------------
(* Properties of the pivot *)

\* the rows of the displayed table that come first in their pivot cell
FirstRows ==
  {j \in DOMAIN combined_df :
     \A k \in 1..(j - 1) : Cell(variant, combined_df[k]) # Cell(variant, combined_df[j])}

\* what the displayed pivot shows in a cell: a Value, or null for a blank
Shown(cell) ==
  IF \E c \in pivot_df.cells : c.cell = cell
  THEN (CHOOSE c \in pivot_df.cells : c.cell = cell).Value
  ELSE PyNone

\* C13: every cell of the pivot shows the Value of the row of the unified
\* table that comes first in it; later rows of the cell never override it
C13_FirstRowWins ==
  (pc = "done" /\ pivot_df.made) =>
    \A j \in FirstRows :
       Shown(Cell(variant, combined_df[j])) = combined_df[j].Value

-----------------------------------------------------------------------------
(* Properties of the end of a run *)

\* every call of the loops has been made and every one came back empty
AllCallsEmpty ==
  /\ calls # <<>>
  /\ Len(calls) = Len(Plan(country_codes, selected_kpis))
  /\ \A k \in DOMAIN calls : calls[k].table = <<>> /\ calls[k].exc = ""

\* C14: when every adapter call of a run returns an empty table the merged
\* table is empty and the run ends with the 'no data found' notice, with no
\* pivot computed, no file written or offered and no error
C14_AllEmptyGivesNoData ==
  (pc \in {"extract", "done", "cancelled", "error"} /\ AllCallsEmpty) =>
    /\ pc = "done"
    /\ all_data = <<>>
    /\ combined_df = <<>>
    /\ notice = "no data"
    /\ pivot_df = NoPivot
    /\ files = <<>>

\* a finished run of two calls and more, one failed and one answered with
\* no observation
C14_Witness ==
  /\ pc = "done"
  /\ AllCallsEmpty
  /\ \E j, k \in DOMAIN calls :
       /\ calls[j].response.kind = "timeout"
       /\ calls[k].response.kind = "http"

\* a file of that table is written or offered under a name with a timestamp
Offered(data) ==
  \E k \in DOMAIN files :
     /\ files[k].data = data
     /\ \E n \in DOMAIN files[k].file_name : files[k].file_name[n] = "%Y%m%d_%H%M%S"

\* C15: every run that presents a non-empty unified table offers the unified
\* table and the pivoted table as files with a timestamp in their names, in
\* the terminal program as in the browser program
C15_BothTablesOffered ==
  (pc = "done" /\ notice = "shown") =>
    /\ combined_df # <<>>
    /\ pivot_df.made
    /\ Offered("df")
    /\ Offered("pivot_df")

\* C16: a run ends before its display / 'no data' step only when the user
\* cancels it, with the cancellation message; nothing typed at the prompts
\* and no response ends it any other way
C16_OnlyCancellationIsFatal ==
  (pc \notin {"start", "extract", "done", "rejected", "unit"}) =>
    /\ pc = "cancelled"
    /\ notice = "cancelled"

-----------------------------------------------------------------------------
(* Properties of single adapter calls: exceptions *)

\* the response of the call was parsed into a list of items
HasItems(c) ==
  /\ c.response.kind = "http"
  /\ c.response.status = 200
  /\ c.response.body.shape \in {"value", "obs", "rows"}

\* int() is reached for the item and raises
ItemRaises(c, item) ==
  CASE c.source = "WHO_GHO" ->
         /\ item.SpatialDim = c.country_code
         /\ Truthy(item.TimeDim)
         /\ PyInt(item.TimeDim).exc # ""
    [] c.source = "WORLD_BANK" ->
         /\ item.value # PyNone
         /\ PyInt(item.date).exc # ""
    [] OTHER ->
         /\ item.OBS_VALUE \notin {PyNaN, PyNone}
         /\ Truthy(item.TIME_PERIOD)
         /\ PyInt(item.TIME_PERIOD).exc # ""

\* C17: in each adapter, when the processing of any item of the response
\* raises, the adapter returns the empty table, with none of the records
\* accumulated from the items before it, and reports the exception as a
\* warning naming the KPI
C17_AllOrNothing ==
  \A k \in DOMAIN calls :
    LET c == calls[k] IN
    (HasItems(c) /\ \E n \in DOMAIN c.response.body.items :
                       ItemRaises(c, c.response.body.items[n])) =>
      /\ c.table = <<>>
      /\ c.exc = ""
      /\ Len(c.warnings) = 1
      /\ c.warnings[1].kpi = c.kpi_name
      /\ c.warnings[1].error \in {"ValueError", "TypeError"}

\* a World Bank call whose first observation alone would give a record and
\* whose second observation raises
C17_Witness ==
  /\ pc = "unit"
  /\ calls[1].source = "WORLD_BANK"
  /\ HasItems(calls[1])
  /\ Len(calls[1].response.body.items) = 2
  /\ calls[1].response.body.items[1] = [date |-> PyS("2015"), value |-> PyI(7)]
  /\ ItemRaises(calls[1], calls[1].response.body.items[2])
  /\ calls[1].table = <<>>

-----------------------------------------------------------------------------
(* Properties of the records *)

\* the fixed Source label of each adapter
SourceLabel(source) ==
  CASE source = "WHO_GHO" -> "WHO GHO"
    [] source = "WORLD_BANK" -> "World Bank"
    [] OTHER -> "OECD"

\* the record carries the arguments of the call and the label of its adapter
FromCall(rec, c) ==
  /\ rec.Country = c.country_code
  /\ rec.KPI = c.kpi_name
  /\ rec.Source = SourceLabel(c.source)

\* C19: every record of a table returned by an adapter has the Country and
\* the KPI name passed to the call and the Source label of the adapter, and
\* every row of the table an aggregator returns is, field for field, a
\* record returned by one of the run's calls
C19_RecordOrigin ==
  /\ \A k \in DOMAIN calls : \A j \in DOMAIN calls[k].table :
       FromCall(calls[k].table[j], calls[k])
  /\ pc = "done" =>
       /\ Len(combined_df) = TotalRows(calls)
       /\ \A j \in DOMAIN combined_df :
            \E k \in DOMAIN calls :
               /\ \E n \in DOMAIN calls[k].table : calls[k].table[n] = combined_df[j]
               /\ FromCall(combined_df[j], calls[k])

\* a finished browser extraction whose merged table holds World Bank
\* records of two countries, in another order than the calls returned them
C19_Witness ==
  /\ pc = "done"
  /\ variant = "web"
  /\ calls[1].country_code = "USA"
  /\ calls[1].source = "WORLD_BANK"
  /\ calls[1].table # <<>>
  /\ combined_df[1].Country = "IND"
  /\ combined_df[1].Source = "World Bank"
  /\ combined_df[Len(combined_df)].Country = "USA"

-----------------------------------------------------------------------------
(* Properties of the progress bar *)

\* fractions current / total with total > 0, compared without dividing
FractionLess(f, g) == f[1] * g[2] < g[1] * f[2]

\* C20: in the browser aggregator the counter is the number of adapter calls
\* made, each call reports one fraction current / total with total not 0,
\* the fractions lie in (0, 1] and increase strictly, and the last call of
\* an extraction reports exactly 1
C20_Progress ==
  variant = "web" =>
    /\ current_operation = Len(calls)
    /\ Len(progress) = Len(calls)
    /\ \A k \in DOMAIN progress :
         /\ progress[k] = <<k, total_operations>>
         /\ progress[k][2] # 0
         /\ FractionLess(<<0, 1>>, progress[k])
         /\ ~FractionLess(<<1, 1>>, progress[k])
         /\ k > 1 => FractionLess(progress[k - 1], progress[k])
    /\ pc = "done" => progress[Len(progress)][1] = progress[Len(progress)][2]
    /\ pc = "extract" => current_operation < total_operations

\* a finished extraction for two countries in which a call that came back
\* empty was counted like the others
C20_Witness ==
  /\ variant = "web"
  /\ pc = "done"
  /\ Len(country_codes) = 2
  /\ Len(progress) >= 2
  /\ calls[1].table = <<>>
  /\ progress[1] = <<1, total_operations>>

-----------------------------------------------------------------------------
(* Properties of a browser session *)

Stored == "health_data" \in session_state.keys

\* the two stored values are set together, the stored table is not empty
\* and holds rows of the stored countries only
StoredTogether ==
  /\ session_state.keys \in {{}, {"health_data", "selected_countries"}}
  /\ Stored =>
       /\ session_state.health_data # <<>>
       /\ session_state.selected_countries # <<>>
       /\ \A j \in DOMAIN session_state.health_data :
            \E n \in DOMAIN session_state.selected_countries :
               session_state.health_data[j].Country
                 = countries[session_state.selected_countries[n]]

\* a step that changes what is stored is the end of an extraction with a
\* non-empty table, and stores that table and the countries of that click
StoredOnlyByExtraction ==
  session_state' # session_state =>
    /\ pc = "extract"
    /\ pc' = "done"
    /\ notice' = "shown"
    /\ combined_df' # <<>>
    /\ session_state'.health_data = combined_df'
    /\ session_state'.selected_countries = selected_countries'
    /\ country_codes' = [k \in DOMAIN selected_countries' |-> countries[selected_countries'[k]]]

\* a step that ends in a rejected click or in an empty extraction leaves
\* what is stored as it was
RejectedKeepsStored ==
  (pc' = "rejected" \/ (pc' = "done" /\ notice' = "no data")) =>
    session_state' = session_state

\* C18: in a browser session, over any sequence of clicks and reruns, the
\* stored table and the stored countries are replaced only, and together, by
\* an extraction that returned a non-empty table; a rejected click and an
\* empty extraction leave both unchanged, and the stored table is never empty
C18_StoredResult ==
  /\ []StoredTogether
  /\ [][StoredOnlyByExtraction /\ RejectedKeepsStored]_vars

\* a result is stored and a later extraction, for other countries, has come
\* back empty
C18_Witness ==
  /\ pc = "done"
  /\ notice = "no data"
  /\ calls # <<>>
  /\ Stored
  /\ selected_countries # session_state.selected_countries

-----------------------------------------------------------------------------
(* Properties of the terminal KPI menu *)

\* the numbers of an entry whose fields are all integers
EnteredNumbers == [k \in DOMAIN selection |-> IntOfStr(selection[k]).i]

AllIntegers == \A k \in DOMAIN selection : IntOfStr(selection[k]).exc = ""

\* the menu as the catalogs give it: 10 WHO GHO names numbered 1 to 10, then
\* 7 World Bank names numbered 11 to 17, then 8 OECD names numbered 18 to 25
NumberedKpi(n) ==
  IF n \in 1..10 THEN [db |-> "WHO_GHO", kpi |-> who_gho_kpis_cli[n][1]]
  ELSE IF n \in 11..17 THEN [db |-> "WORLD_BANK", kpi |-> world_bank_kpis[n - 10][1]]
  ELSE [db |-> "OECD", kpi |-> oecd_kpis[n - 17][1]]

\* the list of a source after the entry: one name for each number of the
\* entry that lies in the menu range and belongs to the source, in order
ExpectedList(db) ==
  LET mine(n) == n \in 1..25 /\ NumberedKpi(n).db = db
      kept == SelectSeq(EnteredNumbers, mine)
  IN [k \in DOMAIN kept |-> NumberedKpi(kept[k]).kpi]

\* how often the loops of a run for one country call the KPI of a number
TimesFetched(n) ==
  Cardinality({k \in DOMAIN Plan(<<"IND">>, selected_kpis) :
                 /\ Plan(<<"IND">>, selected_kpis)[k].source = NumberedKpi(n).db
                 /\ Plan(<<"IND">>, selected_kpis)[k].kpi_name = NumberedKpi(n).kpi})

TimesEntered(n) == Cardinality({k \in DOMAIN selection : EnteredNumbers[k] = n})

\* C21: the menu numbers run from 1 in catalog order, WHO GHO, then World
\* Bank, then OECD; an entry of integers is accepted without an error, every
\* number in the menu range adds the KPI of that number to the list of its
\* source, once for each time it is entered and so fetched that often, and
\* the numbers outside the range add nothing
C21_MenuSelection ==
  /\ DOMAIN Menu = 1..25
  /\ \A n \in 1..25 : Menu[n] = NumberedKpi(n)
  /\ (pc \in {"selected", "error"} /\ AllIntegers) =>
       /\ pc = "selected"
       /\ selected_kpis.WHO_GHO = ExpectedList("WHO_GHO")
       /\ selected_kpis.WORLD_BANK = ExpectedList("WORLD_BANK")
       /\ selected_kpis.OECD = ExpectedList("OECD")
       /\ \A n \in 1..25 : TimesFetched(n) = TimesEntered(n)
       /\ Len(Plan(<<"IND">>, selected_kpis))
            = Cardinality({k \in DOMAIN selection : EnteredNumbers[k] \in 1..25})

\* the first OECD number entered twice around a number above the range
C21_Witness ==
  /\ pc = "selected"
  /\ selection = <<"18", "26", "18">>
  /\ selected_kpis.OECD = <<oecd_kpis[1][1], oecd_kpis[1][1]>>
  /\ selected_kpis.WHO_GHO = <<>>
  /\ selected_kpis.WORLD_BANK = <<>>

====
